---- MODULE Spec2Model ----
(***************************************************************************)
(* One participant ("local party") of the ECDSA threshold key generation   *)
(* in ecdsa/keygen/local_party.go.  The LocalParty object is the record    *)
(* p; Start, Update, StoreMessage and Finish are operators over it, and    *)
(* the caller (transport plus the other, possibly faulty, parties) is the  *)
(* environment that picks the calls and the messages.                      *)
(*                                                                         *)
(* The round objects (newRound1, Start/CanProceed/Update of each round),   *)
(* tss.BaseUpdate and the crypto packages are not part of local_party.go;  *)
(* they follow sections 4.2 - 4.5 of the specification.                    *)
(*                                                                         *)
(* Specifications: Spec (one party and its caller), SpecIndex              *)
(* (OriginalIndex on save data), SpecRun and FairRun (honest runs of       *)
(* several parties over a transport), SpecLock (two goroutines calling     *)
(* Start and Update on one party, statement by statement).                 *)
(***************************************************************************)
EXTENDS Integers, Sequences, FiniteSets, TLC

VARIABLES
    p,       \* the LocalParty object (BaseParty.Round/Out, params, temp, data, end)
    ret,     \* what the last call on p returned, with its argument
    save,    \* a LocalPartySaveData value handed to OriginalIndex
    idxRet,  \* what OriginalIndex returned for save
    parties, \* the LocalParty objects of one n-party run, by party index
    net,     \* messages read from the parties' outbound channels, not yet delivered
    mtx,     \* the party's mutex: the goroutine holding it, or NilInt
    calls    \* the concurrent callers of one party: where each call is

vars == <<p, ret, save, idxRet, parties, net, mtx, calls>>

-----------------------------------------------------------------------------
(* Sizes of the model *)

N == 2          \* params.PartyCount() of the party under test
MaxSecret == 1  \* a party's secret ui (coefficient 0) is sampled from 0..MaxSecret
MaxKs == 3      \* longest Ks handed to OriginalIndex
MaxKey == 3     \* share ids handed to OriginalIndex are 1..MaxKey

Threshold == 1  \* params.Threshold(): the polynomial has Threshold+1 coefficients
Q == 5          \* order of the (prime order) curve group
G == 2          \* the group's generator, as an element of Z_Q

NilInt == 0 - 1              \* a nil *big.Int / *ECPoint / key
NoMsg == [type |-> "nil"]    \* a nil message pointer (an empty slot)
NoErr == [kind |-> "nil", culprit |-> NilInt]
Err(kind, j) == [kind |-> kind, culprit |-> j]

-----------------------------------------------------------------------------
(* Curve, VSS, commitment and Paillier collaborators (section 2) *)

RECURSIVE Pow(_, _)
Pow(b, e) == IF e = 0 THEN 1 ELSE (b * Pow(b, e - 1)) % Q

\* crypto.ScalarBaseMult: the point a*G
ScalarBaseMult(a) == (a * G) % Q

\* the polynomial with coefficients poly[0..Threshold], evaluated at x
RECURSIVE EvalPoly(_, _, _)
EvalPoly(poly, x, c) ==
    IF c > Threshold THEN 0
    ELSE (poly[c] * Pow(x, c) + EvalPoly(poly, x, c + 1)) % Q

\* vss.Create: the public coefficient commitments vs and one share per party id
VssVs(poly) == [c \in 0..Threshold |-> ScalarBaseMult(poly[c])]
VssShares(poly, keys) ==
    [j \in DOMAIN keys |-> [ID |-> keys[j], Share |-> EvalPoly(poly, keys[j], 0)]]

\* vss.Share.Verify: share*G = sum_c vs[c] * ID^c
ShareVerify(share, vs) ==
    ScalarBaseMult(share.Share) = EvalPoly(vs, share.ID, 0)

\* commitments: C = H(r, vs), D = (r, vs); H is collision free on the model's values
RECURSIVE Hash(_, _)
Hash(D, c) ==
    IF c > Threshold THEN D.r
    ELSE D.vs[c] + Q * Hash(D, c + 1)

HashCommit(r, vs) == [C |-> 1 + Hash([r |-> r, vs |-> vs], 0), D |-> [r |-> r, vs |-> vs]]
DeCommitVerify(C, D) == C = 1 + Hash(D, 0)

\* Paillier: a key pair is (sk, pk); the proof of correct generation is bound to pk
PaillierPk(sk) == 2 * sk + 1
PaillierProof(sk) == [pk |-> PaillierPk(sk), y |-> 3 * sk]
PaillierVerify(pk, proof) == proof.pk = pk /\ 2 * proof.y = 3 * (pk - 1)

-----------------------------------------------------------------------------
(* Messages (tss.Message implementations of the keygen package) *)

Kinds == {"KGRound1CommitMessage", "KGRound2VssMessage",
          "KGRound2DeCommitMessage", "KGRound3PaillierProveMessage"}

Broadcast == NilInt   \* the To of a broadcast message

KGRound1CommitMessage(from, C, pk, nt, h1, h2, k) ==
    [type |-> "KGRound1CommitMessage", From |-> from, To |-> Broadcast,
     Commitment |-> C, PaillierPk |-> pk, NTildei |-> nt, H1i |-> h1, H2i |-> h2,
     K |-> k]
KGRound2VssMessage(from, to, share) ==
    [type |-> "KGRound2VssMessage", From |-> from, To |-> to, PiShare |-> share]
KGRound2DeCommitMessage(from, D) ==
    [type |-> "KGRound2DeCommitMessage", From |-> from, To |-> Broadcast,
     DeCommitment |-> D]
KGRound3PaillierProveMessage(from, proof) ==
    [type |-> "KGRound3PaillierProveMessage", From |-> from, To |-> Broadcast,
     Proof |-> proof]

-----------------------------------------------------------------------------
(* The party object *)

Idx(n) == 0..(n - 1)
NilSlice == <<>>                      \* a nil slice: length 0
MakeSlice(n, v) == [j \in Idx(n) |-> v]
SliceLen(s) == Cardinality(DOMAIN s)

NoRound == [number |-> 0, started |-> FALSE]   \* BaseParty.Round = nil
Done == 4                                      \* the number the model gives "finished"
RoundNumber(party) == IF party.Round = NoRound THEN Done ELSE party.Round.number

\* tss.Parameters: party count, threshold, own index, and every party's key
Parameters(n, t, i) ==
    [partyCount |-> n, threshold |-> t, index |-> i, keys |-> [j \in Idx(n) |-> j + 1]]

\* newRound1(params, &p.data, &p.temp, out)
newRound1 == [number |-> 1, started |-> FALSE]

\* the LocalParty literal of NewLocalParty and its make() calls, with p.Round = round
LocalPartyStruct(params, round) ==
    LET partyCount == params.partyCount
    IN  [params |-> params,
         Round |-> round,
         Out |-> <<>>,
         end |-> <<>>,
         temp |-> [kgRound1CommitMessages |-> MakeSlice(partyCount, NoMsg),
                   kgRound2VssMessages |-> MakeSlice(partyCount, NoMsg),
                   kgRound2DeCommitMessages |-> MakeSlice(partyCount, NoMsg),
                   kgRound3PaillierProveMessage |-> MakeSlice(partyCount, NoMsg),
                   ui |-> NilInt,
                   KGCs |-> MakeSlice(partyCount, NilInt),
                   vs |-> NilSlice,
                   shares |-> NilSlice,
                   deCommitPolyG |-> NilSlice],
         data |-> [Xi |-> NilInt, ShareID |-> NilInt, PaillierSk |-> NilInt,
                   BigXj |-> MakeSlice(partyCount, NilInt),
                   PaillierPks |-> MakeSlice(partyCount, NilInt),
                   NTildej |-> MakeSlice(partyCount, NilInt),
                   H1j |-> MakeSlice(partyCount, NilInt),
                   H2j |-> MakeSlice(partyCount, NilInt),
                   Ks |-> NilSlice,
                   ECDSAPub |-> NilInt]]

\* faulty variant: the constructor leaves the party at an unstarted second round
NewLocalPartyAtRound2(params) ==
    LocalPartyStruct(params, [number |-> 2, started |-> FALSE])

NewLocalParty(params) ==
    LocalPartyStruct(params, newRound1)

\* what a call hands back: the party afterwards, (ok, err), the rounds the party
\* was in during the call, in order, and whether a round's Start() was invoked
Result(party, ok, err, path, invoked) ==
    [p |-> party, ok |-> ok, err |-> err, path |-> path, invoked |-> invoked]

-----------------------------------------------------------------------------
(* LocalParty.StoreMessage and LocalParty.Finish *)

\* faulty variant: the decommit case writes the VSS slot array
StoreMessageWrongArray(party, msg) ==
    LET fromPIdx == msg.From
    IN  CASE msg.type = "KGRound1CommitMessage" ->
               Result([party EXCEPT !.temp.kgRound1CommitMessages[fromPIdx] = msg],
                      TRUE, NoErr, <<>>, FALSE)
          [] msg.type = "KGRound2VssMessage" ->
               Result([party EXCEPT !.temp.kgRound2VssMessages[fromPIdx] = msg],
                      TRUE, NoErr, <<>>, FALSE)
          [] msg.type = "KGRound2DeCommitMessage" ->
               Result([party EXCEPT !.temp.kgRound2VssMessages[fromPIdx] = msg],
                      TRUE, NoErr, <<>>, FALSE)
          [] msg.type = "KGRound3PaillierProveMessage" ->
               Result([party EXCEPT !.temp.kgRound3PaillierProveMessage[fromPIdx] = msg],
                      TRUE, NoErr, <<>>, FALSE)
          [] OTHER -> Result(party, FALSE, NoErr, <<>>, FALSE)

\* faulty variant: an unrecognised message is reported as stored
StoreMessageAcceptsAll(party, msg) ==
    LET fromPIdx == msg.From
    IN  CASE msg.type = "KGRound1CommitMessage" ->
               Result([party EXCEPT !.temp.kgRound1CommitMessages[fromPIdx] = msg],
                      TRUE, NoErr, <<>>, FALSE)
          [] msg.type = "KGRound2VssMessage" ->
               Result([party EXCEPT !.temp.kgRound2VssMessages[fromPIdx] = msg],
                      TRUE, NoErr, <<>>, FALSE)
          [] msg.type = "KGRound2DeCommitMessage" ->
               Result([party EXCEPT !.temp.kgRound2DeCommitMessages[fromPIdx] = msg],
                      TRUE, NoErr, <<>>, FALSE)
          [] msg.type = "KGRound3PaillierProveMessage" ->
               Result([party EXCEPT !.temp.kgRound3PaillierProveMessage[fromPIdx] = msg],
                      TRUE, NoErr, <<>>, FALSE)
          [] OTHER -> Result(party, TRUE, NoErr, <<>>, FALSE)

StoreMessage(party, msg) ==
    LET fromPIdx == msg.From
    IN  CASE msg.type = "KGRound1CommitMessage" ->
               Result([party EXCEPT !.temp.kgRound1CommitMessages[fromPIdx] = msg],
                      TRUE, NoErr, <<>>, FALSE)
          [] msg.type = "KGRound2VssMessage" ->
               Result([party EXCEPT !.temp.kgRound2VssMessages[fromPIdx] = msg],
                      TRUE, NoErr, <<>>, FALSE)
          [] msg.type = "KGRound2DeCommitMessage" ->
               Result([party EXCEPT !.temp.kgRound2DeCommitMessages[fromPIdx] = msg],
                      TRUE, NoErr, <<>>, FALSE)
          [] msg.type = "KGRound3PaillierProveMessage" ->
               Result([party EXCEPT !.temp.kgRound3PaillierProveMessage[fromPIdx] = msg],
                      TRUE, NoErr, <<>>, FALSE)
          [] OTHER -> Result(party, FALSE, NoErr, <<>>, FALSE)

\* faulty variant: the save data is sent twice
FinishTwice(party) ==
    [party EXCEPT !.end = Append(Append(@, party.data), party.data)]

\* faulty variant: a zero-valued save data is sent instead of the party's
FinishEmpty(party) ==
    [party EXCEPT !.end = Append(@, LocalPartyStruct(party.params, NoRound).data)]

\* p.end <- p.data
Finish(party) ==
    [party EXCEPT !.end = Append(@, party.data)]

-----------------------------------------------------------------------------
(* The three rounds (sections 4.2 - 4.5): Start, CanProceed, Update of each *)

Self(party) == party.params.index
Count(party) == party.params.partyCount
Others(party) == Idx(Count(party)) \ {Self(party)}

\* the Paillier key pair and range proof parameters party i generates in round 1
GeneratePaillierSk(i) == i + 1
GenerateNTilde(i) == [NTilde |-> 11 + i, H1 |-> 21 + i, H2 |-> 31 + i]

AlreadyStarted(party) ==
    Result(party, FALSE, Err("InvalidStateError", NilInt), <<>>, TRUE)

\* round1.Start: sample, share, commit; broadcast the commitment only
Round1Start(party, rnd) ==
    IF party.Round.started THEN AlreadyStarted(party)
    ELSE LET i == Self(party)
             vs == VssVs(rnd.poly)
             shares == VssShares(rnd.poly, party.params.keys)
             cmt == HashCommit(rnd.r, vs)
             sk == GeneratePaillierSk(i)
             nt == GenerateNTilde(i)
             msg == KGRound1CommitMessage(i, cmt.C, PaillierPk(sk), nt.NTilde, nt.H1,
                                          nt.H2, party.params.keys[i])
         IN  Result([party EXCEPT !.Round.started = TRUE,
                                  !.temp.ui = rnd.poly[0],
                                  !.temp.vs = vs,
                                  !.temp.shares = shares,
                                  !.temp.deCommitPolyG = cmt.D,
                                  !.data.PaillierSk = sk,
                                  !.temp.kgRound1CommitMessages[i] = msg,
                                  !.Out = Append(@, msg)],
                    TRUE, NoErr, <<>>, TRUE)

\* the point-to-point share messages of round 2, for recipients j, j+1, ...
RECURSIVE VssMessages(_, _)
VssMessages(party, j) ==
    IF j >= Count(party) THEN <<>>
    ELSE IF j = Self(party) THEN VssMessages(party, j + 1)
    ELSE <<KGRound2VssMessage(Self(party), j, party.temp.shares[j].Share)>>
         \o VssMessages(party, j + 1)

\* round2.Start: one share to every other party, then reveal vs
Round2Start(party) ==
    IF party.Round.started THEN AlreadyStarted(party)
    ELSE Result([party EXCEPT !.Round.started = TRUE,
                              !.Out = @ \o VssMessages(party, 0)
                                        \o <<KGRound2DeCommitMessage(
                                                Self(party), party.temp.deCommitPolyG)>>],
                TRUE, NoErr, <<>>, TRUE)

\* round3.Start: broadcast the proof for the own Paillier key
Round3Start(party) ==
    IF party.Round.started THEN AlreadyStarted(party)
    ELSE Result([party EXCEPT !.Round.started = TRUE,
                              !.Out = Append(@, KGRound3PaillierProveMessage(
                                                    Self(party),
                                                    PaillierProof(party.data.PaillierSk)))],
                TRUE, NoErr, <<>>, TRUE)

\* p.Round.Start() through the Round interface; a nil Round panics
RoundStart(party, rnd) ==
    CASE party.Round = NoRound -> Result(party, FALSE, Err("panic", NilInt), <<>>, TRUE)
      [] party.Round.number = 1 -> Round1Start(party, rnd)
      [] party.Round.number = 2 -> Round2Start(party)
      [] party.Round.number = 3 -> Round3Start(party)

\* completion predicates
Round1Complete(party) ==
    \A j \in Idx(Count(party)) : party.temp.kgRound1CommitMessages[j] # NoMsg
Round2Complete(party) ==
    \A j \in Others(party) : /\ party.temp.kgRound2VssMessages[j] # NoMsg
                             /\ party.temp.kgRound2DeCommitMessages[j] # NoMsg
Round3Complete(party) ==
    \A j \in Others(party) : party.temp.kgRound3PaillierProveMessage[j] # NoMsg

CanProceed(party) ==
    CASE party.Round.number = 1 -> Round1Complete(party)
      [] party.Round.number = 2 -> Round2Complete(party)
      [] party.Round.number = 3 -> Round3Complete(party)
      [] OTHER -> FALSE

\* round 1 finalize: keep every party's commitment
Round1Update(party) ==
    Result([party EXCEPT !.temp.KGCs =
                [j \in Idx(Count(party)) |->
                    party.temp.kgRound1CommitMessages[j].Commitment]],
           TRUE, NoErr, <<>>, FALSE)

\* round 2 finalize, senders j, j+1, ...: open the commitment, verify the share,
\* and only then take the sender into Xi and BigXj
RECURSIVE Round2Accept(_, _)
Round2Accept(party, j) ==
    IF j >= Count(party) THEN Result(party, TRUE, NoErr, <<>>, FALSE)
    ELSE IF j = Self(party) THEN Round2Accept(party, j + 1)
    ELSE LET D == party.temp.kgRound2DeCommitMessages[j].DeCommitment
             share == [ID |-> party.params.keys[Self(party)],
                       Share |-> party.temp.kgRound2VssMessages[j].PiShare]
         IN  IF ~DeCommitVerify(party.temp.KGCs[j], D)
             THEN Result(party, FALSE, Err("CommitmentMismatchError", j), <<>>, FALSE)
             ELSE IF ~ShareVerify(share, D.vs)
             THEN Result(party, FALSE, Err("InvalidShareError", j), <<>>, FALSE)
             ELSE Round2Accept([party EXCEPT !.data.Xi = (@ + share.Share) % Q,
                                             !.data.BigXj[j] = D.vs[0]],
                               j + 1)

\* faulty variant: the own share is left out of Xi
Round2UpdateNoOwnShare(party) ==
    Round2Accept([party EXCEPT !.data.Xi = 0,
                               !.data.BigXj[Self(party)] = party.temp.vs[0]],
                 0)

Round2Update(party) ==
    Round2Accept([party EXCEPT !.data.Xi = party.temp.shares[Self(party)].Share,
                               !.data.BigXj[Self(party)] = party.temp.vs[0]],
                 0)

\* the lowest sender >= j whose Paillier proof does not verify, or NilInt
RECURSIVE BadProof(_, _)
BadProof(party, j) ==
    IF j >= Count(party) THEN NilInt
    ELSE IF j # Self(party)
            /\ ~PaillierVerify(party.temp.kgRound1CommitMessages[j].PaillierPk,
                               party.temp.kgRound3PaillierProveMessage[j].Proof)
         THEN j
         ELSE BadProof(party, j + 1)

RECURSIVE SumPoints(_, _)
SumPoints(points, j) ==
    IF j \notin DOMAIN points THEN 0 ELSE (points[j] + SumPoints(points, j + 1)) % Q

\* round 3 finalize: verify every proof, then assemble the save data
Round3Update(party) ==
    LET bad == BadProof(party, 0)
        r1 == party.temp.kgRound1CommitMessages
        all == Idx(Count(party))
    IN  IF bad # NilInt
        THEN Result(party, FALSE, Err("InvalidProofError", bad), <<>>, FALSE)
        ELSE Result([party EXCEPT
                        !.data.PaillierPks = [j \in all |-> r1[j].PaillierPk],
                        !.data.NTildej = [j \in all |-> r1[j].NTildei],
                        !.data.H1j = [j \in all |-> r1[j].H1i],
                        !.data.H2j = [j \in all |-> r1[j].H2i],
                        !.data.Ks = [j \in all |-> r1[j].K],
                        !.data.ECDSAPub = SumPoints(party.data.BigXj, 0),
                        !.data.ShareID = party.temp.shares[Self(party)].ID],
                    TRUE, NoErr, <<>>, FALSE)

RoundUpdate(party) ==
    CASE party.Round.number = 1 -> Round1Update(party)
      [] party.Round.number = 2 -> Round2Update(party)
      [] party.Round.number = 3 -> Round3Update(party)

-----------------------------------------------------------------------------
(* tss.BaseUpdate (section 4.2) and the exported methods *)

\* faulty variant: the round after the next one is swapped in
NextRoundSkips(party) == [number |-> party.Round.number + 2, started |-> FALSE]

NextRound(party) == [number |-> party.Round.number + 1, started |-> FALSE]

\* while the current round is complete: finalize it, swap the next round in and
\* start it; after the last round, Finish
RECURSIVE Advance(_, _)
Advance(party, path) ==
    IF party.Round = NoRound \/ ~CanProceed(party)
    THEN Result(party, TRUE, NoErr, path, FALSE)
    ELSE LET fin == RoundUpdate(party)
         IN  IF fin.err # NoErr
             THEN Result(fin.p, FALSE, fin.err, path, FALSE)
             ELSE IF party.Round.number = 3
             THEN Result(Finish([fin.p EXCEPT !.Round = NoRound]),
                         TRUE, NoErr, Append(path, Done), FALSE)
             ELSE LET st == RoundStart([fin.p EXCEPT !.Round = NextRound(party)],
                                       [poly |-> <<>>, r |-> 0])
                      seen == Append(path, party.Round.number + 1)
                  IN  IF st.err # NoErr
                      THEN Result(st.p, FALSE, st.err, seen, FALSE)
                      ELSE Advance(st.p, seen)

\* lock; StoreMessage; advance while possible; unlock
BaseUpdate(party, msg) ==
    LET stored == StoreMessage(party, msg)
    IN  IF stored.err # NoErr \/ ~stored.ok
        THEN Result(stored.p, FALSE, stored.err, <<RoundNumber(party)>>, FALSE)
        ELSE Advance(stored.p, <<RoundNumber(party)>>)

\* faulty variant: the message is stored and the round engine is not run
UpdateStoresOnly(party, msg) ==
    StoreMessage(party, msg)

\* faulty variant: the error of BaseUpdate is dropped
UpdateDropsError(party, msg) ==
    [BaseUpdate(party, msg) EXCEPT !.err = NoErr]

Update(party, msg) ==
    BaseUpdate(party, msg)

\* faulty variant: no check that the current round is round 1
StartNoGuard(party, rnd) ==
    RoundStart(party, rnd)

\* faulty variant: the decommitment is put on the outbound channel with the commitment
StartReveals(party, rnd) ==
    IF party.Round = NoRound \/ party.Round.number # 1
    THEN Result(party, FALSE, Err("InvalidStateError", NilInt), <<>>, FALSE)
    ELSE LET r == RoundStart(party, rnd)
         IN  [r EXCEPT !.p.Out = Append(@, KGRound2DeCommitMessage(
                                               Self(party), r.p.temp.deCommitPolyG))]

\* faulty variant: the error of the round's Start is dropped
StartDropsError(party, rnd) ==
    IF party.Round = NoRound \/ party.Round.number # 1
    THEN Result(party, FALSE, Err("InvalidStateError", NilInt), <<>>, FALSE)
    ELSE [RoundStart(party, rnd) EXCEPT !.err = NoErr, !.ok = TRUE]

Start(party, rnd) ==
    IF party.Round = NoRound \/ party.Round.number # 1
    THEN Result(party, FALSE, Err("InvalidStateError", NilInt), <<>>, FALSE)
    ELSE RoundStart(party, rnd)

-----------------------------------------------------------------------------
(* LocalPartySaveData.OriginalIndex *)

Panic == 0 - 2    \* the scan dereferenced a nil *big.Int

\* the loop over save.Ks from position j on: the first j with Ks[j].Cmp(ki) = 0
RECURSIVE ScanKs(_, _)
ScanKs(sv, j) ==
    IF j >= SliceLen(sv.Ks) THEN 0 - 1
    ELSE IF sv.Ks[j] = NilInt \/ sv.ShareID = NilInt THEN Panic
    ELSE IF sv.Ks[j] # sv.ShareID THEN ScanKs(sv, j + 1)
    ELSE j

\* faulty variant: the index found is one too large
OriginalIndexOffByOne(sv) ==
    LET index == ScanKs(sv, 0)
    IN  IF index = Panic THEN [index |-> NilInt, err |-> "panic"]
        ELSE IF index < 0 THEN [index |-> 0 - 1, err |-> "IndexRecoveryError"]
        ELSE [index |-> index + 1, err |-> "nil"]

\* faulty variant: a failed scan returns position 0 without an error
OriginalIndexNoError(sv) ==
    LET index == ScanKs(sv, 0)
    IN  IF index = Panic THEN [index |-> NilInt, err |-> "panic"]
        ELSE IF index < 0 THEN [index |-> 0, err |-> "nil"]
        ELSE [index |-> index, err |-> "nil"]

OriginalIndex(sv) ==
    LET index == ScanKs(sv, 0)
    IN  IF index = Panic THEN [index |-> NilInt, err |-> "panic"]
        ELSE IF index < 0 THEN [index |-> 0 - 1, err |-> "IndexRecoveryError"]
        ELSE [index |-> index, err |-> "nil"]

-----------------------------------------------------------------------------
(* The caller: what it may sample and deliver *)

\* the polynomials a party samples: any secret, the higher coefficients 1
Polys ==
    {[c \in 0..Threshold |-> IF c = 0 THEN u ELSE 1] : u \in 0..MaxSecret}
Blinds == {1}
Samples == [poly : Polys, r : Blinds]

\* messages another party j can send to this party: any polynomial's commitment,
\* opening or share, a proof for its own Paillier key or for another one
MsgsFrom(party, j) ==
    LET nt == GenerateNTilde(j)
        sk == GeneratePaillierSk(j)
    IN  {KGRound1CommitMessage(j, HashCommit(r, VssVs(poly)).C, PaillierPk(sk),
                               nt.NTilde, nt.H1, nt.H2, party.params.keys[j]) :
            poly \in Polys, r \in Blinds}
        \cup {KGRound2VssMessage(j, Self(party),
                                 EvalPoly(poly, party.params.keys[Self(party)], 0)) :
                 poly \in Polys}
        \cup {KGRound2DeCommitMessage(j, HashCommit(r, VssVs(poly)).D) :
                 poly \in Polys, r \in Blinds}
        \cup {KGRound3PaillierProveMessage(j, PaillierProof(k)) : k \in {sk, sk + 1}}

Unrecognised(j) == [type |-> "Unrecognised", From |-> j, To |-> Broadcast]

\* the party's own broadcasts, which the transport may hand back to it
Loopback(party) ==
    {party.Out[k] : k \in {x \in DOMAIN party.Out : party.Out[x].To = Broadcast}}

Inbound(party) ==
    UNION {MsgsFrom(party, j) : j \in Others(party)}
    \cup {Unrecognised(j) : j \in Idx(Count(party))}
    \cup Loopback(party)

-----------------------------------------------------------------------------
(* Specification of one party driven by its caller *)

Called(op, msg, r, before) ==
    [op |-> op, msg |-> msg, ok |-> r.ok, err |-> r.err,
     path |-> IF r.path = <<>> THEN <<RoundNumber(before)>> ELSE r.path,
     invoked |-> r.invoked]

NoSave == LocalPartyStruct(Parameters(1, 0, 0), NoRound).data
NoIndex == [index |-> NilInt, err |-> "none"]
NoParties == <<>>    \* no n-party run is in progress
NoCalls == <<>>      \* no concurrent callers

Init ==
    /\ \E i \in Idx(N) : p = NewLocalParty(Parameters(N, Threshold, i))
    /\ ret = [op |-> "NewLocalParty", msg |-> NoMsg, ok |-> TRUE, err |-> NoErr,
              path |-> <<RoundNumber(p)>>, invoked |-> FALSE]
    /\ save = NoSave
    /\ idxRet = NoIndex
    /\ parties = NoParties /\ net = {}
    /\ mtx = NilInt /\ calls = NoCalls

DoStart ==
    \E rnd \in Samples :
        LET r == Start(p, rnd)
        IN  /\ p' = r.p
            /\ ret' = Called("Start", NoMsg, r, p)
            /\ UNCHANGED <<save, idxRet, parties, net, mtx, calls>>

DoUpdate ==
    \E msg \in Inbound(p) :
        LET r == Update(p, msg)
        IN  /\ p' = r.p
            /\ ret' = Called("Update", msg, r, p)
            /\ UNCHANGED <<save, idxRet, parties, net, mtx, calls>>

DoStoreMessage ==
    \E msg \in Inbound(p) :
        LET r == StoreMessage(p, msg)
        IN  /\ p' = r.p
            /\ ret' = Called("StoreMessage", msg, r, p)
            /\ UNCHANGED <<save, idxRet, parties, net, mtx, calls>>

Next == DoStart \/ DoUpdate \/ DoStoreMessage

Spec == Init /\ [][Next]_vars

-----------------------------------------------------------------------------
(* Specification of OriginalIndex on bounded save data *)

KsInputs == UNION {[Idx(k) -> 1..MaxKey] : k \in 0..MaxKs}

SaveInputs ==
    {[NoSave EXCEPT !.Ks = ks, !.ShareID = id] :
        ks \in KsInputs, id \in 1..MaxKey}
    \cup {NoSave}

InitIndex ==
    /\ p = NewLocalParty(Parameters(N, Threshold, 0))
    /\ ret = [op |-> "NewLocalParty", msg |-> NoMsg, ok |-> TRUE, err |-> NoErr,
              path |-> <<RoundNumber(p)>>, invoked |-> FALSE]
    /\ save \in SaveInputs
    /\ idxRet = NoIndex
    /\ parties = NoParties /\ net = {}
    /\ mtx = NilInt /\ calls = NoCalls

DoOriginalIndex ==
    /\ idxRet' = OriginalIndex(save)
    /\ UNCHANGED <<p, ret, save, parties, net, mtx, calls>>

NextIndex == DoOriginalIndex

SpecIndex == InitIndex /\ [][NextIndex]_vars

-----------------------------------------------------------------------------
(* Specification of an honest run: every party is a LocalParty, the transport *)
(* reads the outbound channels and hands each message to its recipients' Update *)

Parties == N + 1    \* the party count of the run

\* the recipients of a message taken from party's outbound channel
Recipients(party, msg) ==
    IF msg.To = Broadcast THEN Others(party) ELSE {msg.To}

\* what the call that took the party from before to after put on its outbound channel
Emitted(before, after) ==
    UNION {{[to |-> j, msg |-> after.Out[k]] : j \in Recipients(after, after.Out[k])} :
              k \in (Len(before.Out) + 1)..Len(after.Out)}

InitRun ==
    /\ p = NewLocalParty(Parameters(N, Threshold, 0))
    /\ ret = [op |-> "NewLocalParty", msg |-> NoMsg, ok |-> TRUE, err |-> NoErr,
              path |-> <<RoundNumber(p)>>, invoked |-> FALSE]
    /\ save = NoSave
    /\ idxRet = NoIndex
    /\ parties = [i \in Idx(Parties) |-> NewLocalParty(Parameters(Parties, Threshold, i))]
    /\ net = {}
    /\ mtx = NilInt /\ calls = NoCalls

\* party i's caller starts it, once
RunStart(i) ==
    /\ ~parties[i].Round.started /\ RoundNumber(parties[i]) = 1
    /\ \E rnd \in Samples :
          \E r \in {Start(parties[i], rnd)} :
              \E out \in {Emitted(parties[i], r.p)} :
                  /\ parties' = [parties EXCEPT ![i] = r.p]
                  /\ net' = net \cup out
    /\ UNCHANGED <<p, ret, save, idxRet, mtx, calls>>

\* the transport hands one message in flight to its recipient's Update
RunDeliver(m) ==
    /\ m \in net
    /\ \E r \in {Update(parties[m.to], m.msg)} :
          \E out \in {Emitted(parties[m.to], r.p)} :
              /\ parties' = [parties EXCEPT ![m.to] = r.p]
              /\ net' = (net \ {m}) \cup out
    /\ UNCHANGED <<p, ret, save, idxRet, mtx, calls>>

RunStarts == \E i \in DOMAIN parties : RunStart(i)
RunDelivers == \E m \in net : RunDeliver(m)

NextRun == RunStarts \/ RunDelivers

SpecRun == InitRun /\ [][NextRun]_vars

\* the honest run of N parties in which every party is started and every message
\* in flight is delivered in the end: while a party is unstarted or a message is
\* in flight, a Start or a delivery takes place
InitFair ==
    /\ p = NewLocalParty(Parameters(N, Threshold, 0))
    /\ ret = [op |-> "NewLocalParty", msg |-> NoMsg, ok |-> TRUE, err |-> NoErr,
              path |-> <<RoundNumber(p)>>, invoked |-> FALSE]
    /\ save = NoSave
    /\ idxRet = NoIndex
    /\ parties = [i \in Idx(N) |-> NewLocalParty(Parameters(N, Threshold, i))]
    /\ net = {}
    /\ mtx = NilInt /\ calls = NoCalls

FairRun == InitFair /\ [][NextRun]_vars /\ WF_vars(NextRun)

-----------------------------------------------------------------------------
(* Specification of concurrent callers of one party: Start and Update, statement *)
(* by statement, under the party's mutex *)

Goroutines == {1, 2}

\* sync.Mutex: Lock() returns only when nobody holds the mutex
LockFree(m) == TRUE    \* faulty variant: Lock() never waits
Lock(m) == m = NilInt

NoResult == [ok |-> FALSE, err |-> NoErr]
Idle == [pc |-> "idle", op |-> "none", msg |-> NoMsg, rnd |-> [poly |-> <<>>, r |-> 0],
         at |-> NoParties, res |-> NoResult]

\* what the honest party j sends to this party when it has sampled rnd
HonestFrom(party, j, rnd) ==
    LET nt == GenerateNTilde(j)
        sk == GeneratePaillierSk(j)
        cmt == HashCommit(rnd.r, VssVs(rnd.poly))
        own == party.params.keys[Self(party)]
    IN  {KGRound1CommitMessage(j, cmt.C, PaillierPk(sk), nt.NTilde, nt.H1, nt.H2,
                               party.params.keys[j]),
         KGRound2VssMessage(j, Self(party), EvalPoly(rnd.poly, own, 0)),
         KGRound2DeCommitMessage(j, cmt.D),
         KGRound3PaillierProveMessage(j, PaillierProof(sk))}

\* the calls the goroutines make: Start with the party's sample, Update with a
\* message of a peer
PeerSample == CHOOSE rnd \in Samples : rnd.poly[0] = 0
CallsOn(party) ==
    {[Idle EXCEPT !.pc = "lock", !.op = "Start", !.rnd = rnd] : rnd \in Samples}
    \cup {[Idle EXCEPT !.pc = "lock", !.op = "Update", !.msg = msg] :
             msg \in UNION {HonestFrom(party, j, PeerSample) : j \in Others(party)}}

\* the call as one step, from the state the party was in when the lock was taken
Serial(call) ==
    IF call.op = "Start" THEN Start(call.at, call.rnd) ELSE Update(call.at, call.msg)

InitLock ==
    /\ p = NewLocalParty(Parameters(N, Threshold, 0))
    /\ ret = [op |-> "NewLocalParty", msg |-> NoMsg, ok |-> TRUE, err |-> NoErr,
              path |-> <<RoundNumber(p)>>, invoked |-> FALSE]
    /\ save = NoSave
    /\ idxRet = NoIndex
    /\ parties = NoParties /\ net = {}
    /\ mtx = NilInt
    /\ calls = [t \in Goroutines |-> Idle]

\* the statement of goroutine t moves its call to pc with result (ok, err)
Goto(t, pc, ok, err) ==
    calls' = [calls EXCEPT ![t].pc = pc, ![t].res = [ok |-> ok, err |-> err]]

\* a goroutine calls Start or Update
Call(t) ==
    /\ calls[t].pc = "idle"
    /\ \E call \in CallsOn(p) : calls' = [calls EXCEPT ![t] = call]
    /\ UNCHANGED <<p, ret, save, idxRet, parties, net, mtx>>

\* p.Lock()
Acquire(t) ==
    /\ calls[t].pc = "lock"
    /\ Lock(mtx)
    /\ mtx' = t
    /\ calls' = [calls EXCEPT ![t].at = p,
                              ![t].pc = IF calls[t].op = "Start" THEN "check" ELSE "store"]
    /\ UNCHANGED <<p, ret, save, idxRet, parties, net>>

\* Start: if round, ok := p.Round.(*round1); !ok || round == nil
StartCheck(t) ==
    /\ calls[t].pc = "check"
    /\ IF p.Round = NoRound \/ p.Round.number # 1
       THEN Goto(t, "unlock", FALSE, Err("InvalidStateError", NilInt))
       ELSE Goto(t, "start", FALSE, NoErr)
    /\ UNCHANGED <<p, ret, save, idxRet, parties, net, mtx>>

\* Start: return p.Round.Start()
StartRound(t) ==
    /\ calls[t].pc = "start" /\ calls[t].op = "Start"
    /\ LET r == RoundStart(p, calls[t].rnd)
       IN  /\ p' = r.p
           /\ Goto(t, "unlock", r.ok, r.err)
    /\ UNCHANGED <<ret, save, idxRet, parties, net, mtx>>

\* BaseUpdate: p.StoreMessage(msg)
UpdateStore(t) ==
    /\ calls[t].pc = "store"
    /\ LET stored == StoreMessage(p, calls[t].msg)
       IN  /\ p' = stored.p
           /\ IF stored.err # NoErr \/ ~stored.ok
              THEN Goto(t, "unlock", FALSE, stored.err)
              ELSE Goto(t, "proceed", FALSE, NoErr)
    /\ UNCHANGED <<ret, save, idxRet, parties, net, mtx>>

\* BaseUpdate: if the round can proceed, run its finalize step
UpdateProceed(t) ==
    /\ calls[t].pc = "proceed"
    /\ IF p.Round = NoRound \/ ~CanProceed(p)
       THEN p' = p /\ Goto(t, "unlock", TRUE, NoErr)
       ELSE LET fin == RoundUpdate(p)
            IN  /\ p' = fin.p
                /\ IF fin.err # NoErr
                   THEN Goto(t, "unlock", FALSE, fin.err)
                   ELSE Goto(t, "swap", FALSE, NoErr)
    /\ UNCHANGED <<ret, save, idxRet, parties, net, mtx>>

\* BaseUpdate: swap the next round in, or Finish after the last round
UpdateSwap(t) ==
    /\ calls[t].pc = "swap"
    /\ IF p.Round = NoRound \/ p.Round.number = 3
       THEN /\ p' = Finish([p EXCEPT !.Round = NoRound])
            /\ Goto(t, "unlock", TRUE, NoErr)
       ELSE /\ p' = [p EXCEPT !.Round = NextRound(p)]
            /\ Goto(t, "start", FALSE, NoErr)
    /\ UNCHANGED <<ret, save, idxRet, parties, net, mtx>>

\* BaseUpdate: start the round swapped in, then look at it again
UpdateStart(t) ==
    /\ calls[t].pc = "start" /\ calls[t].op = "Update"
    /\ LET st == RoundStart(p, Idle.rnd)
       IN  /\ p' = st.p
           /\ IF st.err # NoErr
              THEN Goto(t, "unlock", FALSE, st.err)
              ELSE Goto(t, "proceed", FALSE, NoErr)
    /\ UNCHANGED <<ret, save, idxRet, parties, net, mtx>>

\* p.Unlock() and return
Release(t) ==
    /\ calls[t].pc = "unlock"
    /\ mtx' = NilInt
    /\ calls' = [calls EXCEPT ![t] = Idle]
    /\ UNCHANGED <<p, ret, save, idxRet, parties, net>>

NextLock ==
    \E t \in Goroutines :
        \/ Call(t)
        \/ Acquire(t)
        \/ StartCheck(t)
        \/ StartRound(t)
        \/ UpdateStore(t)
        \/ UpdateProceed(t)
        \/ UpdateSwap(t)
        \/ UpdateStart(t)
        \/ Release(t)

SpecLock == InitLock /\ [][NextLock]_vars

-----------------------------------------------------------------------------
(* Properties *)

Range(seq) == {seq[k] : k \in DOMAIN seq}

\* the slot array a message kind is stored in
Slots(party, kind) ==
    CASE kind = "KGRound1CommitMessage" -> party.temp.kgRound1CommitMessages
      [] kind = "KGRound2VssMessage" -> party.temp.kgRound2VssMessages
      [] kind = "KGRound2DeCommitMessage" -> party.temp.kgRound2DeCommitMessages
      [] kind = "KGRound3PaillierProveMessage" -> party.temp.kgRound3PaillierProveMessage

AllSlots(party) == [kind \in Kinds |-> Slots(party, kind)]

\* C1: the party starts in Round 1, and within every call its round moves from the
\* round it was in, one round at a time (1 -> 2 -> 3 -> Done), to the round it is
\* in afterwards: never back, never over a round.
C1_PathStep ==
    /\ ret'.path[1] = RoundNumber(p)
    /\ ret'.path[Len(ret'.path)] = RoundNumber(p')
    /\ \A k \in 1..(Len(ret'.path) - 1) : ret'.path[k + 1] = ret'.path[k] + 1
    /\ Range(ret'.path) \subseteq 1..Done
C1_RoundOrder == RoundNumber(p) = 1 /\ [][C1_PathStep]_vars
C1_Witness == ret.op = "Update" /\ ret.path = <<1, 2, 3, Done>>

\* C2: the result channel receives at most one value; the value is the party's
\* save data and is sent in the step that finalises Round 3 with every other
\* party's Paillier proof verified; a party that is Done has sent exactly one.
C2_Send ==
    p'.end # p.end =>
        /\ p.end = <<>>
        /\ p'.end = <<p'.data>>
        /\ ret'.op = "Update" /\ ret'.err = NoErr
        /\ RoundNumber(p) \in 1..3 /\ RoundNumber(p') = Done
        /\ \A j \in Others(p') :
              PaillierVerify(p'.data.PaillierPks[j],
                             p'.temp.kgRound3PaillierProveMessage[j].Proof)
C2_Once ==
    /\ Len(p'.end) <= 1
    /\ (RoundNumber(p') = Done) = (Len(p'.end) = 1)
C2_SingleResult == p.end = <<>> /\ [][C2_Send /\ C2_Once]_vars
C2_Witness == RoundNumber(p) = Done /\ Len(p.end) = 1 /\ p.end[1] = p.data

\* C3: Start() on a party that is in Round 1 and already started returns
\* InvalidStateError and puts nothing on the outbound channel.
C3_Step ==
    (ret'.op = "Start" /\ RoundNumber(p) = 1 /\ p.Round.started) =>
        /\ ret'.err.kind = "InvalidStateError"
        /\ p'.Out = p.Out
C4_Step ==
    (ret'.op = "Start" /\ RoundNumber(p) # 1) =>
        /\ ret'.err.kind = "InvalidStateError"
        /\ ~ret'.invoked
        /\ p' = p
C4_StartNotRound1 == [][C4_Step]_vars
C4_Witness ==
    /\ ret.op = "Start" /\ ret.err.kind = "InvalidStateError"
    /\ RoundNumber(p) = 3

\* C5: StoreMessage of a message of no recognised kind returns (false, nil) and
\* leaves the four slot arrays as they were.
C5_Step ==
    (ret'.op = "StoreMessage" /\ ret'.msg.type \notin Kinds) =>
        /\ ~ret'.ok
        /\ ret'.err = NoErr
        /\ AllSlots(p') = AllSlots(p)
C5_Unrecognised == [][C5_Step]_vars
C5_Witness ==
    /\ ret.op = "StoreMessage" /\ ret.msg.type = "Unrecognised" /\ ~ret.ok
    /\ RoundNumber(p) = 2

\* C6: StoreMessage of a message of a recognised kind K from sender i returns
\* (true, nil); afterwards slot K[i] holds the message, every other slot of the
\* four arrays is as before, and so is the rest of the party: the round does not
\* matter and the content is not looked at.
C6_Step ==
    (ret'.op = "StoreMessage" /\ ret'.msg.type \in Kinds) =>
        LET msg == ret'.msg
        IN  /\ ret'.ok
            /\ ret'.err = NoErr
            /\ Slots(p', msg.type)[msg.From] = msg
            /\ \A kind \in Kinds : \A j \in Idx(Count(p)) :
                  (kind # msg.type \/ j # msg.From) =>
                      Slots(p', kind)[j] = Slots(p, kind)[j]
            /\ p'.Round = p.Round /\ p'.data = p.data /\ p'.Out = p.Out
            /\ p'.end = p.end
C6_Store == [][C6_Step]_vars
\* a Round-3 proof that does not verify, stored while the party is in Round 1
C6_Witness ==
    /\ ret.op = "StoreMessage" /\ ret.ok
    /\ ret.msg.type = "KGRound3PaillierProveMessage"
    /\ RoundNumber(p) = 1
    /\ p.temp.kgRound3PaillierProveMessage[ret.msg.From] = ret.msg
    /\ ~PaillierVerify(PaillierPk(GeneratePaillierSk(ret.msg.From)), ret.msg.Proof)

\* the positions of sv.Ks that hold sv.ShareID
Matches(sv) == {j \in DOMAIN sv.Ks : sv.Ks[j] = sv.ShareID}

\* C7: when exactly one entry of Ks, the one at position i, equals ShareID,
\* OriginalIndex returns (i, nil), and the save data is as before.
C7_Step ==
    idxRet' # idxRet =>
        /\ \A i \in DOMAIN save.Ks :
              Matches(save) = {i} => idxRet' = [index |-> i, err |-> "nil"]
        /\ save' = save
C7_OwnIndex == [][C7_Step]_vars
C7_Witness ==
    /\ idxRet = [index |-> 2, err |-> "nil"]
    /\ SliceLen(save.Ks) = 3
    /\ Matches(save) = {2}

\* C8: when no entry of Ks equals ShareID (Ks may be empty), OriginalIndex
\* returns (-1, IndexRecoveryError); a position it returns without error always
\* holds ShareID.
C8_NoMatch ==
    idxRet # NoIndex =>
        /\ Matches(save) = {} =>
              idxRet = [index |-> 0 - 1, err |-> "IndexRecoveryError"]
        /\ idxRet.err = "nil" =>
              /\ idxRet.index \in DOMAIN save.Ks
              /\ save.Ks[idxRet.index] = save.ShareID
        /\ idxRet.err \in {"nil", "IndexRecoveryError"}
C8_Witness ==
    /\ idxRet = [index |-> 0 - 1, err |-> "IndexRecoveryError"]
    /\ SliceLen(save.Ks) >= 2
C8_WitnessEmpty ==
    /\ idxRet = [index |-> 0 - 1, err |-> "IndexRecoveryError"]
    /\ SliceLen(save.Ks) = 0

\* what Round 2's finalize finds for sender j in the party's store
Opens(party, j) ==
    DeCommitVerify(party.temp.KGCs[j],
                   party.temp.kgRound2DeCommitMessages[j].DeCommitment)
ShareOk(party, j) ==
    ShareVerify([ID |-> party.params.keys[Self(party)],
                 Share |-> party.temp.kgRound2VssMessages[j].PiShare],
                party.temp.kgRound2DeCommitMessages[j].DeCommitment.vs)
Before(party, j) == {k \in Others(party) : k < j}
Accepted(party, j) == \A k \in Before(party, j) : Opens(party, k) /\ ShareOk(party, k)

\* the last call was an Update in which Round 2's finalize ran
FinalisedRound2 ==
    /\ ret.op = "Update"
    /\ ret.msg.type \in Kinds
    /\ 2 \in Range(ret.path)
    /\ Round2Complete(p)

\* C9: when Round 2's finalize comes to a sender j whose stored decommitment does
\* not open the commitment kept for j in Round 1, the Update returns
\* (false, CommitmentMismatchError naming j) and the party stays in Round 2; with
\* any such sender in the store the Update fails and the party stays in Round 2.
C9_Mismatch ==
    FinalisedRound2 =>
        \A j \in Others(p) :
            ~Opens(p, j) =>
                /\ ret.err # NoErr /\ ~ret.ok
                /\ RoundNumber(p) = 2
                /\ Accepted(p, j) => ret.err = Err("CommitmentMismatchError", j)
C9_Witness ==
    /\ FinalisedRound2
    /\ \E j \in Others(p) :
          /\ ~Opens(p, j)
          /\ ret.err = Err("CommitmentMismatchError", j)
    /\ RoundNumber(p) = 2

RECURSIVE SumShares(_, _)
SumShares(party, set) ==
    IF set = {} THEN 0
    ELSE LET k == CHOOSE x \in set : TRUE
         IN  (party.temp.kgRound2VssMessages[k].PiShare
              + SumShares(party, set \ {k})) % Q

\* Xi when exactly the senders before j have been taken in
XiBefore(party, j) ==
    (party.temp.shares[Self(party)].Share + SumShares(party, Before(party, j))) % Q

\* C10: when Round 2's finalize comes to a sender j whose decommitment opens but
\* whose stored share fails verification against the revealed vs, the Update
\* returns (false, InvalidShareError naming j), Xi is the sum of the own share
\* and the shares of the senders accepted before j, and BigXj[j] is what it was
\* before the call: the failing share is in neither.
C10_Step ==
    (FinalisedRound2' /\ ret'.err.kind = "InvalidShareError") =>
        LET j == ret'.err.culprit
        IN  /\ j \in Others(p')
            /\ ~ShareOk(p', j)
            /\ p'.data.Xi = XiBefore(p', j)
            /\ \A k \in Others(p') : k >= j => p'.data.BigXj[k] = p.data.BigXj[k]
            /\ RoundNumber(p') = 2
C10_Fails ==
    FinalisedRound2' =>
        \A j \in Others(p') :
            (Accepted(p', j) /\ Opens(p', j) /\ ~ShareOk(p', j)) =>
                ret'.err = Err("InvalidShareError", j) /\ ~ret'.ok
C10_InvalidShare == [][C10_Step /\ C10_Fails]_vars
C10_Witness ==
    /\ FinalisedRound2
    /\ \E j \in Others(p) :
          /\ Opens(p, j) /\ ~ShareOk(p, j)
          /\ ret.err = Err("InvalidShareError", j)
          /\ p.data.BigXj[j] = NilInt
    /\ p.data.Xi = p.temp.shares[Self(p)].Share

\* every party of the run is finished
AllDone == \A i \in DOMAIN parties : RoundNumber(parties[i]) = Done
\* the save data party i delivered on its result channel
Delivered(i) == parties[i].end[1]

\* C11: in an honest run, whatever the order of delivery, once all parties are
\* Done each has delivered one save data, and the ECDSAPub in every party's
\* delivered save data is the same point.
C11_SamePub ==
    AllDone =>
        \A i, j \in DOMAIN parties :
            /\ Len(parties[i].end) = 1
            /\ Delivered(i).ECDSAPub # NilInt
            /\ Delivered(i).ECDSAPub = Delivered(j).ECDSAPub
C11_Witness ==
    /\ parties # NoParties /\ AllDone
    /\ \E i, j \in DOMAIN parties : parties[i].temp.ui # parties[j].temp.ui
    /\ \A i \in DOMAIN parties : Delivered(i).ECDSAPub = Delivered(0).ECDSAPub

\* arithmetic in the prime field Z_Q
Mod(x) == ((x % Q) + Q) % Q
Inverse(x) == Pow(Mod(x), Q - 2)

\* the Lagrange basis polynomial of party i among the parties in set, at zero
RECURSIVE Basis(_, _, _)
Basis(ids, i, set) ==
    IF set = {} THEN 1
    ELSE LET j == CHOOSE x \in set : TRUE
         IN  (Mod(ids[j]) * Inverse(ids[j] - ids[i]) * Basis(ids, i, set \ {j})) % Q

\* Lagrange interpolation at zero through the points (ids[i], xs[i]), i in set
RECURSIVE Interpolate(_, _, _, _)
Interpolate(ids, xs, set, rest) ==
    IF rest = {} THEN 0
    ELSE LET i == CHOOSE x \in rest : TRUE
         IN  (xs[i] * Basis(ids, i, set \ {i})
              + Interpolate(ids, xs, set, rest \ {i})) % Q

RECURSIVE SumSeeds(_)
SumSeeds(set) ==
    IF set = {} THEN 0
    ELSE LET i == CHOOSE x \in set : TRUE
         IN  (parties[i].temp.ui + SumSeeds(set \ {i})) % Q

Quorums == {S \in SUBSET DOMAIN parties : Cardinality(S) = Threshold + 1}
ShareIDs == [i \in DOMAIN parties |-> Delivered(i).ShareID]
Xis == [i \in DOMAIN parties |-> Delivered(i).Xi]

\* C12: in a completed honest run, Lagrange interpolation at zero of the Xi of
\* any Threshold+1 parties at their ShareIDs is the sum of all parties' seeds ui
\* (in Z_Q), and ECDSAPub is that scalar times the generator.
C12_Reconstruct ==
    AllDone =>
        /\ \A S \in Quorums : Interpolate(ShareIDs, Xis, S, S) = SumSeeds(DOMAIN parties)
        /\ \A i \in DOMAIN parties :
              Delivered(i).ECDSAPub = ScalarBaseMult(SumSeeds(DOMAIN parties))
C12_Witness ==
    /\ parties # NoParties /\ AllDone
    /\ Cardinality(Quorums) = 3
    /\ SumSeeds(DOMAIN parties) = 2
    /\ \A S \in Quorums : Interpolate(ShareIDs, Xis, S, S) = 2
    /\ \A i, j \in DOMAIN parties : i # j => Xis[i] # Xis[j]

\* the goroutines inside the body of Start or Update
BodyPcs == {"check", "start", "store", "proceed", "swap", "unlock"}
InBody == {t \in DOMAIN calls : calls[t].pc \in BodyPcs}

\* C13: with concurrent callers, at most one Start or Update is inside its body
\* at any time, and it holds the party's lock; the party changes only in a step
\* of that call; and when the call returns, the party and the result are those
\* of the whole call made in one step on the party as it was when the call took
\* the lock: the calls take effect one after the other, in the order of locking.
C13_Step ==
    /\ Cardinality(InBody') <= 1
    /\ \A t \in InBody' : mtx' = t
    /\ p' # p => \E t \in InBody : mtx = t /\ calls'[t] # calls[t]
    /\ \A t \in InBody :
          calls'[t].pc = "idle" =>
              /\ p = Serial(calls[t]).p
              /\ calls[t].res.ok = Serial(calls[t]).ok
              /\ calls[t].res.err = Serial(calls[t]).err
C13_MutualExclusion == InBody = {} /\ [][C13_Step]_vars
\* one Update has taken the party from Round 1 to Round 3 in its body while the
\* other goroutine waits for the lock
C13_Witness ==
    /\ calls # NoCalls
    /\ \E t, u \in DOMAIN calls :
          /\ calls[t].pc = "unlock" /\ calls[t].op = "Update" /\ mtx = t
          /\ RoundNumber(calls[t].at) = 1 /\ RoundNumber(p) = 3
          /\ calls[u].pc = "lock"

\* the array-typed fields of the save data
SaveArrays(data) ==
    <<data.BigXj, data.PaillierPks, data.NTildej, data.H1j, data.H2j, data.Ks>>

\* the party as the claim describes it right after construction, Ks apart
ConstructedExceptKs(party) ==
    /\ RoundNumber(party) = 1 /\ ~party.Round.started
    /\ \A kind \in Kinds :
          /\ SliceLen(Slots(party, kind)) = Count(party)
          /\ \A j \in Idx(Count(party)) : Slots(party, kind)[j] = NoMsg
    /\ SliceLen(party.temp.KGCs) = Count(party)
    /\ \A j \in Idx(Count(party)) : party.temp.KGCs[j] = NilInt
    /\ \A k \in 1..5 : SliceLen(SaveArrays(party.data)[k]) = Count(party)

\* C14: right after NewLocalParty for n parties the party is in Round 1 and not
\* started, the four slot arrays and KGCs have length n with every slot empty,
\* and BigXj, PaillierPks, NTildej, H1j, H2j and Ks all have length n.
C14_Constructed ==
    ret.op = "NewLocalParty" =>
        /\ ConstructedExceptKs(p)
        /\ SliceLen(p.data.Ks) = Count(p)
\* what NewLocalParty does establish: everything above but the length of Ks,
\* which is a nil slice
C14_ExceptKs ==
    ret.op = "NewLocalParty" =>
        /\ ConstructedExceptKs(p)
        /\ p.data.Ks = NilSlice /\ SliceLen(p.data.Ks) = 0

\* the slots of one kind are filled for every sender in set
Filled(party, kind, set) == \A j \in set : Slots(party, kind)[j] # NoMsg

\* the completion predicate of round k, read off the slot arrays
Complete(party, k) ==
    CASE k = 1 -> Filled(party, "KGRound1CommitMessage", Idx(Count(party)))
      [] k = 2 -> /\ Filled(party, "KGRound2VssMessage", Others(party))
                  /\ Filled(party, "KGRound2DeCommitMessage", Others(party))
      [] k = 3 -> Filled(party, "KGRound3PaillierProveMessage", Others(party))
      [] OTHER -> FALSE

\* C15: a call that takes the party out of round k (k = 1, 2, 3; out of Round 3
\* is to Done) is an Update, and with the message of that call stored the
\* round's completion predicate holds: the commit slot of every party, itself
\* included, for Round 1; the share slot and the decommit slot of every other
\* party for Round 2; the proof slot of every other party for Round 3.
C15_Step ==
    \A k \in 1..3 :
        (RoundNumber(p) <= k /\ k < RoundNumber(p')) =>
            /\ ret'.op = "Update"
            /\ Complete(p', k)
C15_LeaveWhenComplete == [][C15_Step]_vars
C15_Witness ==
    /\ ret.op = "Update" /\ ret.path = <<2, 3>>
    /\ Complete(p, 2) /\ ~Complete(p, 3)
    /\ ret.msg.type = "KGRound2VssMessage"

\* C16 as stated: after every Update that returns without error the party is
\* Done or rests in a round whose completion predicate is false.
C16_AfterUpdate ==
    (ret.op = "Update" /\ ret.err = NoErr) =>
        RoundNumber(p) = Done \/ ~Complete(p, RoundNumber(p))
\* C16, amended: after every Update that returns (true, nil) the party is Done
\* or rests in a round whose completion predicate is false; an Update of an
\* unrecognised message returns (false, nil) and leaves the party where it was.
C16_AfterStoredUpdate ==
    /\ (ret.op = "Update" /\ ret.ok /\ ret.err = NoErr) =>
          RoundNumber(p) = Done \/ ~Complete(p, RoundNumber(p))
    /\ (ret.op = "Update" /\ ret.msg.type \notin Kinds) =>
          ~ret.ok /\ ret.err = NoErr /\ Len(ret.path) = 1
\* one Update went through Rounds 1 and 2 on messages stored early
C16_Witness ==
    /\ ret.op = "Update" /\ ret.ok /\ ret.err = NoErr
    /\ ret.path = <<1, 2, 3>>
    /\ ~Complete(p, 3)

\* the messages of one kind on a party's outbound channel
Sent(party, kind) == {m \in Range(party.Out) : m.type = kind}
\* the fields of a Round-1 commit message
CommitFields ==
    {"type", "From", "To", "Commitment", "PaillierPk", "NTildei", "H1i", "H2i", "K"}

\* C17: in an honest run, (1) what a party has put on its outbound channel while
\* in Round 1 is one commit message, which carries the commitment to vs (a
\* number) and has no field for vs or the decommitment; (2) a party whose decommit message is on its
\* outbound channel holds the Round-1 commit message of every party and has
\* kept every commitment; (3) when any party's decommit message, which reveals
\* vs, is on an outbound channel, all n parties have emitted their commitments.
C17_CommitBeforeReveal ==
    \A i \in DOMAIN parties :
        LET party == parties[i]
        IN  /\ RoundNumber(party) = 1 =>
                  /\ Range(party.Out) = Sent(party, "KGRound1CommitMessage")
                  /\ Len(party.Out) = IF party.Round.started THEN 1 ELSE 0
            /\ \A m \in Sent(party, "KGRound1CommitMessage") :
                  /\ DOMAIN m = CommitFields
                  /\ m.Commitment = HashCommit(party.temp.deCommitPolyG.r,
                                               party.temp.vs).C
                  /\ m.Commitment \in Nat
            /\ Sent(party, "KGRound2DeCommitMessage") # {} =>
                  /\ RoundNumber(party) >= 2
                  /\ Complete(party, 1)
                  /\ \A j \in DOMAIN parties :
                        /\ party.temp.KGCs[j] # NilInt
                        /\ Sent(parties[j], "KGRound1CommitMessage") # {}
\* a party has revealed its vs while another party is still in Round 1
C17_Witness ==
    /\ parties # NoParties
    /\ \E i, j \in DOMAIN parties :
          /\ \E m \in Sent(parties[i], "KGRound2DeCommitMessage") :
                m.DeCommitment.vs = parties[i].temp.vs
          /\ RoundNumber(parties[j]) = 1
          /\ Sent(parties[j], "KGRound1CommitMessage") # {}
          /\ ~Complete(parties[j], 1)

\* the errors of a round's finalize step
FatalKinds == {"CommitmentMismatchError", "InvalidShareError", "InvalidProofError"}

\* C18: once an Update has returned a fatal CommitmentMismatchError,
\* InvalidShareError or InvalidProofError, an Update that follows, whatever it
\* delivers (a corrected message from the same sender for the same slot
\* included), neither advances the round nor delivers save data.
C18_Step ==
    (ret.op = "Update" /\ ret.err.kind \in FatalKinds /\ ret'.op = "Update") =>
        /\ RoundNumber(p') = RoundNumber(p)
        /\ p'.end = p.end
C19_Step ==
    \A kind \in Kinds : \A j \in Idx(Count(p)) :
        Slots(p, kind)[j] # NoMsg => Slots(p', kind)[j] = Slots(p, kind)[j]
C19_WriteOnce == [][C19_Step]_vars

\* C19, amended: a non-empty slot is never cleared, and the content of slot
\* kind[j] changes only in a StoreMessage or Update call that delivers a message
\* of that kind from sender j, which then is the slot's content (a second
\* message of the same kind from the same sender replaces the first), or in the
\* Start call that stores the party's own commitment in its empty slot.
C19_Overwrite ==
    \A kind \in Kinds : \A j \in Idx(Count(p)) :
        LET old == Slots(p, kind)[j]
            new == Slots(p', kind)[j]
        IN  /\ old # NoMsg => new # NoMsg
            /\ new # old =>
                  \/ /\ ret'.op \in {"StoreMessage", "Update"}
                     /\ ret'.msg.type = kind /\ ret'.msg.From = j
                     /\ new = ret'.msg
                  \/ /\ ret'.op = "Start" /\ old = NoMsg
                     /\ kind = "KGRound1CommitMessage" /\ j = Self(p)
C19_WrittenByDelivery == [][C19_Overwrite]_vars
\* the commit slot of a sender holds another commitment than the one Round 1
\* kept for that sender: the slot was written a second time
C19_Witness ==
    /\ ret.op = "Update" /\ ret.msg.type = "KGRound1CommitMessage"
    /\ RoundNumber(p) = 2
    /\ p.temp.kgRound1CommitMessages[ret.msg.From] = ret.msg
    /\ p.temp.KGCs[ret.msg.From] # NilInt
    /\ p.temp.KGCs[ret.msg.From] # ret.msg.Commitment

\* party i is finished and has delivered its save data, once
Finished(i) ==
    /\ RoundNumber(parties[i]) = Done
    /\ parties[i].end = <<parties[i].data>>

\* C20: in an honest run in which every party is started and every emitted
\* message is delivered in the end, in whatever order and however early, every
\* party reaches Done and delivers its save data on its result channel, and
\* stays so: none is left in Round 1, 2 or 3.
C20_AllFinish ==
    <>[](parties # NoParties /\ \A i \in DOMAIN parties : Finished(i))
C20_Witness ==
    /\ parties # NoParties /\ net = {}
    /\ \A i \in DOMAIN parties :
          /\ Finished(i)
          /\ Len(parties[i].Out) = Count(parties[i]) + 2
          /\ parties[i].data.Ks = parties[i].params.keys

====
